---- MODULE Spec2Model ----
(***************************************************************************)
(* Model of the tscli benchmark pipeline (package main): the Controller    *)
(* that routes query params to workers with host affinity, the Workers     *)
(* that execute queries and report samples, and the Collector that         *)
(* aggregates the samples.  Goroutines are processes, Go channels are      *)
(* bounded FIFO buffers with a close counter.                              *)
(***************************************************************************)
EXTENDS Integers, Sequences, FiniteSets, TLC

\* ------------------------------------------------------------------ bounds
\* Longest input (number of query params in Controller.data).
MaxRecords == 4
\* The -w flag ranges over 0..MaxCap.
MaxCap == 2
\* Buffer size of a worker's work channel (scaled down so that it fills).
InboxCap == 1
\* Buffer size of the collector channel (scaled down so that it fills).
SampleCap == 1

\* Largest opTime, in nanoseconds, of the samples the collector is run on.
MaxSample == 5

\* Width in bits of time.Duration (int64), scaled down so that sums overflow.
IntWidth == 6

\* math.MaxInt64 and math.MinInt64 at this width
MaxInt == 2^(IntWidth - 1) - 1
MinInt == -(2^(IntWidth - 1))

\* An input of n records names at most n hosts.
Hosts == 1..MaxRecords
\* The opTimes the executor is measured with, in nanoseconds.
Latencies == {1}

\* nil *time.Duration: a value no time.Duration has
Nil == MinInt - 1

\* Inputs up to renaming of hosts: the hosts are opaque map keys, so an input
\* is represented by the one that numbers its hosts by first occurrence.
RECURSIVE MaxOf(_)
MaxOf(s) == IF s = <<>> THEN 0
            ELSE LET m == MaxOf(Tail(s)) IN IF Head(s) > m THEN Head(s) ELSE m

SubSeqTo(s, n) == [i \in 1..n |-> s[i]]

Inputs == UNION {{s \in [1..n -> Hosts] :
                    \A i \in 1..n : s[i] <= MaxOf(SubSeqTo(s, i - 1)) + 1}
                 : n \in 0..MaxRecords}

VARIABLES
  data,                \* Controller.data: the host of each query param
  numWorkers,          \* Controller.numWorkers
  cliErr,              \* the error runCli returns ("nil": none)
  workers,             \* Controller.workers: the roster, handles in spawn order
  workerMap,           \* Controller.workerMap: host -> handle
  lbIndex,             \* Controller.lbIndex
  pc,                  \* position of Controller.Run
  idx,                 \* dispatch loop: index into data of the current record
  k,                   \* close / wait loops: index into workers
  target,              \* the handle the current record is being sent to (0: none)
  workChan,            \* per worker: buffer of its work channel (record indices)
  workClosed,          \* per worker: number of close() calls on its work channel
  controlClosed,       \* per worker: number of close() calls on its control channel
  wpc,                 \* per worker: position of Worker.Run
  wqp,                 \* per worker: the record being executed (0: none)
  wop,                 \* per worker: the opTime measured for it (0: none)
  collectorChan,       \* buffer of Controller.collectorChan (opTimes)
  collectorClosed,     \* number of close() calls on collectorChan
  collectorControlIn,  \* number of close() calls on collectorControlIn
  cpc,                 \* position of Collector.Run
  numQueries,          \* DataStore.numQueries
  totalProcessingTime, \* DataStore.totalProcessingTime
  minQueryTime,        \* DataStore.minQueryTime (Nil: unset)
  maxQueryTime,        \* DataStore.maxQueryTime (Nil: unset)
  allQueryTimes,       \* DataStore.allQueryTimes
  median,              \* reported median (Nil before the report)
  average,             \* reported average (Nil before the report)
  crashed,             \* "no", or why the process died
  executedBy,          \* history: record index -> worker that executed it (0: none)
  producedTotal,       \* history: sum of the opTimes of the samples sent so far
  sampleCount,         \* history: record index -> number of samples sent for it
  received             \* history: the samples the collector has taken, in order

ctlVars == <<workers, workerMap, lbIndex, pc, idx, k, target>>
wrkVars == <<workChan, workClosed, controlClosed, wpc, wqp, wop>>
colVars == <<cpc, numQueries, totalProcessingTime, minQueryTime, maxQueryTime,
             allQueryTimes, median, average>>
chanVars == <<collectorChan, collectorClosed, collectorControlIn>>
histVars == <<executedBy, producedTotal, sampleCount, received>>
cliVars == <<data, numWorkers, cliErr>>
vars == <<cliVars, ctlVars, wrkVars, colVars, chanVars, crashed, histVars>>

\* the process going on after the error of a query was logged
AliveAfterFatal == crashed \in {"no", "fatal: error while executing query"}

\* the process runs until log.Fatal or a panic ends it
Alive == crashed = "no"

\* ------------------------------------------------------------ construction
Init ==
  /\ data \in Inputs
  /\ numWorkers \in 0..MaxCap
  /\ cliErr = "nil"
  /\ workers = <<>>
  /\ workerMap = <<>>
  /\ lbIndex = 0
  /\ pc = "dispatch"
  /\ idx = 1
  /\ k = 1
  /\ target = 0
  /\ workChan = <<>>
  /\ workClosed = <<>>
  /\ controlClosed = <<>>
  /\ wpc = <<>>
  /\ wqp = <<>>
  /\ wop = <<>>
  /\ collectorChan = <<>>
  /\ collectorClosed = 0
  /\ collectorControlIn = 0
  /\ cpc = "recv"
  /\ numQueries = 0
  /\ totalProcessingTime = 0
  /\ minQueryTime = Nil
  /\ maxQueryTime = Nil
  /\ allQueryTimes = <<>>
  /\ median = Nil
  /\ average = Nil
  /\ crashed = "no"
  /\ executedBy = [i \in 1..Len(data) |-> 0]
  /\ producedTotal = 0
  /\ sampleCount = [i \in 1..Len(data) |-> 0]
  /\ received = <<>>

\* --------------------------------------------------------------- Controller
\* the lookup that never finds the host
hasWorkerNever(m, h) == FALSE

\* if worker, ok := c.workerMap[qp.Host]; ok
hasWorker(m, h) == h \in DOMAIN m

\* c.workerMap[qp.Host] = channels, forgotten
bindHostDropped(m, h, w) == m

\* c.workerMap replaced by a map of the one new entry
bindHostOnly(m, h, w) == [x \in {h} |-> w]

\* c.workerMap[qp.Host] = channels
bindHost(m, h, w) == [x \in (DOMAIN m) \cup {h} |-> IF x = h THEN w ELSE m[x]]

\* the cap test, off by one
atCapLate(n, len) == n > 0 /\ len = n + 1

\* A cap that is never reached.
atCapNever(n, len) == FALSE

\* c.numWorkers > 0 && len(c.workers) == int(c.numWorkers)
atCap(n, len) == n > 0 /\ len = n

\* roundRobinSelect without the wrap back to element 0.
roundRobinSelectNoWrap(ws, i) ==
  [w |-> IF i + 1 \in 1..Len(ws) THEN ws[i + 1] ELSE 0, i |-> i + 1]

\* roundRobinSelect: the handle returned and the new lbIndex; w = 0 stands for
\* the index-out-of-range panic of c.workers[...]
roundRobinSelect(ws, i) ==
  IF Len(ws) = i + 1
  THEN [w |-> IF Len(ws) >= 1 THEN ws[1] ELSE 0, i |-> 0]
  ELSE [w |-> IF i + 1 \in 1..Len(ws) THEN ws[i + 1] ELSE 0, i |-> i + 1]

\* A known host's record handed to whichever worker there is.
DispatchKnownAnyWorker ==
  /\ Alive /\ pc = "dispatch" /\ idx <= Len(data)
  /\ hasWorker(workerMap, data[idx])
  /\ \E w \in 1..Len(workers) : target' = workers[w]
  /\ pc' = "send"
  /\ UNCHANGED <<cliVars, workers, workerMap, lbIndex, idx, k, wrkVars,
                 colVars, chanVars, crashed, histVars>>

\* A known host's record routed with the cursor advanced.
DispatchKnownAdvance ==
  /\ Alive /\ pc = "dispatch" /\ idx <= Len(data)
  /\ hasWorker(workerMap, data[idx])
  /\ target' = workerMap[data[idx]]
  /\ lbIndex' = roundRobinSelect(workers, lbIndex).i
  /\ pc' = "send"
  /\ UNCHANGED <<cliVars, workers, workerMap, idx, k, wrkVars,
                 colVars, chanVars, crashed, histVars>>

\* The host is already mapped: the record goes to its worker.
DispatchKnown ==
  /\ Alive /\ pc = "dispatch" /\ idx <= Len(data)
  /\ hasWorker(workerMap, data[idx])
  /\ target' = workerMap[data[idx]]
  /\ pc' = "send"
  /\ UNCHANGED <<cliVars, workers, workerMap, lbIndex, idx, k, wrkVars,
                 colVars, chanVars, crashed, histVars>>

\* New host at the cap, bound to a worker whose inbox is shortest.
DispatchOverflowLeastLoaded ==
  /\ Alive /\ pc = "dispatch" /\ idx <= Len(data)
  /\ ~hasWorker(workerMap, data[idx])
  /\ atCap(numWorkers, Len(workers))
  /\ LET rr == roundRobinSelect(workers, lbIndex) IN
       IF rr.w = 0
       THEN /\ crashed' = "panic: index out of range"
            /\ UNCHANGED <<workerMap, lbIndex, pc, target>>
       ELSE /\ lbIndex' = rr.i
            /\ \E i \in 1..Len(workers) :
                 /\ \A j \in 1..Len(workers) :
                      Len(workChan[workers[i]]) <= Len(workChan[workers[j]])
                 /\ workerMap' = bindHost(workerMap, data[idx], workers[i])
                 /\ target' = workers[i]
            /\ pc' = "send"
            /\ UNCHANGED crashed
  /\ UNCHANGED <<cliVars, workers, idx, k, wrkVars, colVars, chanVars,
                 histVars>>

\* New host at the cap: bind it to the worker roundRobinSelect returns.
DispatchOverflow ==
  /\ Alive /\ pc = "dispatch" /\ idx <= Len(data)
  /\ ~hasWorker(workerMap, data[idx])
  /\ atCap(numWorkers, Len(workers))
  /\ LET rr == roundRobinSelect(workers, lbIndex) IN
       IF rr.w = 0
       THEN /\ crashed' = "panic: index out of range"
            /\ UNCHANGED <<workerMap, lbIndex, pc, target>>
       ELSE /\ lbIndex' = rr.i
            /\ workerMap' = bindHost(workerMap, data[idx], rr.w)
            /\ target' = rr.w
            /\ pc' = "send"
            /\ UNCHANGED crashed
  /\ UNCHANGED <<cliVars, workers, idx, k, wrkVars, colVars, chanVars,
                 histVars>>

\* New host below the cap: its worker spawned, and a spare one with it.
DispatchSpawnSpare ==
  /\ Alive /\ pc = "dispatch" /\ idx <= Len(data)
  /\ ~hasWorker(workerMap, data[idx])
  /\ ~atCap(numWorkers, Len(workers))
  /\ LET w == Len(workChan) + 1 IN
       /\ workChan' = workChan \o << <<>>, <<>> >>
       /\ workClosed' = workClosed \o <<0, 0>>
       /\ controlClosed' = controlClosed \o <<0, 0>>
       /\ wpc' = wpc \o <<"idle", "idle">>
       /\ wqp' = wqp \o <<0, 0>>
       /\ wop' = wop \o <<0, 0>>
       /\ workerMap' = bindHost(workerMap, data[idx], w)
       /\ workers' = workers \o <<w, w + 1>>
       /\ target' = w
  /\ pc' = "send"
  /\ UNCHANGED <<cliVars, lbIndex, idx, k, colVars, chanVars, crashed,
                 histVars>>

\* New host below the cap: make the channels, spawn the worker, bind the host.
DispatchSpawn ==
  /\ Alive /\ pc = "dispatch" /\ idx <= Len(data)
  /\ ~hasWorker(workerMap, data[idx])
  /\ ~atCap(numWorkers, Len(workers))
  /\ LET w == Len(workChan) + 1 IN
       /\ workChan' = Append(workChan, <<>>)
       /\ workClosed' = Append(workClosed, 0)
       /\ controlClosed' = Append(controlClosed, 0)
       /\ wpc' = Append(wpc, "idle")
       /\ wqp' = Append(wqp, 0)
       /\ wop' = Append(wop, 0)
       /\ workerMap' = bindHost(workerMap, data[idx], w)
       /\ workers' = Append(workers, w)
       /\ target' = w
  /\ pc' = "send"
  /\ UNCHANGED <<cliVars, lbIndex, idx, k, colVars, chanVars, crashed,
                 histVars>>

\* WorkOut <- qp: blocks while the buffer is full, panics on a closed channel.
Send ==
  /\ Alive /\ pc = "send"
  /\ IF workClosed[target] > 0
     THEN /\ crashed' = "panic: send on closed WorkOut"
          /\ UNCHANGED <<workChan, idx, pc, target>>
     ELSE /\ Len(workChan[target]) < InboxCap
          /\ workChan' = [workChan EXCEPT ![target] = Append(@, idx)]
          /\ idx' = idx + 1
          /\ target' = 0
          /\ pc' = "dispatch"
          /\ UNCHANGED crashed
  /\ UNCHANGED <<cliVars, workers, workerMap, lbIndex, k,
                 workClosed, controlClosed, wpc, wqp, wop, colVars, chanVars,
                 histVars>>

\* The dispatch loop left with the last record unsent.
DispatchEndEarly ==
  /\ Alive /\ pc = "dispatch" /\ idx >= Len(data)
  /\ pc' = "closeWork"
  /\ k' = 1
  /\ UNCHANGED <<cliVars, workers, workerMap, lbIndex, idx, target,
                 wrkVars, colVars, chanVars, crashed, histVars>>

\* The range over c.data is exhausted.
DispatchEnd ==
  /\ Alive /\ pc = "dispatch" /\ idx > Len(data)
  /\ pc' = "closeWork"
  /\ k' = 1
  /\ UNCHANGED <<cliVars, workers, workerMap, lbIndex, idx, target,
                 wrkVars, colVars, chanVars, crashed, histVars>>

\* The close loop run over the routing table instead of the roster.
CloseWorkPerHost ==
  /\ Alive /\ pc = "closeWork"
  /\ IF k \in DOMAIN workerMap
     THEN IF workClosed[workerMap[k]] > 0
          THEN /\ crashed' = "panic: close of closed WorkOut"
               /\ UNCHANGED <<workClosed, k, pc>>
          ELSE /\ workClosed' = [workClosed EXCEPT ![workerMap[k]] = @ + 1]
               /\ k' = k + 1
               /\ UNCHANGED <<pc, crashed>>
     ELSE /\ pc' = "waitWorkers"
          /\ k' = 1
          /\ UNCHANGED <<workClosed, crashed>>
  /\ UNCHANGED <<cliVars, workers, workerMap, lbIndex, idx, target,
                 workChan, controlClosed, wpc, wqp, wop, colVars, chanVars,
                 histVars>>

\* for _, worker := range c.workers { close(worker.WorkOut) }
CloseWork ==
  /\ Alive /\ pc = "closeWork"
  /\ IF k <= Len(workers)
     THEN IF workClosed[workers[k]] > 0
          THEN /\ crashed' = "panic: close of closed WorkOut"
               /\ UNCHANGED <<workClosed, k, pc>>
          ELSE /\ workClosed' = [workClosed EXCEPT ![workers[k]] = @ + 1]
               /\ k' = k + 1
               /\ UNCHANGED <<pc, crashed>>
     ELSE /\ pc' = "waitWorkers"
          /\ k' = 1
          /\ UNCHANGED <<workClosed, crashed>>
  /\ UNCHANGED <<cliVars, workers, workerMap, lbIndex, idx, target,
                 workChan, controlClosed, wpc, wqp, wop, colVars, chanVars,
                 histVars>>

\* The wait loop without the receive on ControlIn.
WaitWorkersNoBlock ==
  /\ Alive /\ pc = "waitWorkers"
  /\ IF k <= Len(workers)
     THEN /\ k' = k + 1
          /\ UNCHANGED pc
     ELSE /\ pc' = "closeCollector"
          /\ UNCHANGED k
  /\ UNCHANGED <<cliVars, workers, workerMap, lbIndex, idx, target,
                 wrkVars, colVars, chanVars, crashed, histVars>>

\* for _, worker := range c.workers { <-worker.ControlIn }
WaitWorkers ==
  /\ Alive /\ pc = "waitWorkers"
  /\ IF k <= Len(workers)
     THEN /\ controlClosed[workers[k]] > 0
          /\ k' = k + 1
          /\ UNCHANGED pc
     ELSE /\ pc' = "closeCollector"
          /\ UNCHANGED k
  /\ UNCHANGED <<cliVars, workers, workerMap, lbIndex, idx, target,
                 wrkVars, colVars, chanVars, crashed, histVars>>

\* close(c.collectorChan)
CloseCollector ==
  /\ Alive /\ pc = "closeCollector"
  /\ IF collectorClosed > 0
     THEN /\ crashed' = "panic: close of closed channel"
          /\ UNCHANGED <<collectorClosed, pc>>
     ELSE /\ collectorClosed' = collectorClosed + 1
          /\ pc' = "waitCollector"
          /\ UNCHANGED crashed
  /\ UNCHANGED <<cliVars, workers, workerMap, lbIndex, idx, k, target,
                 wrkVars, colVars, collectorChan, collectorControlIn, histVars>>

\* Run returning without the receive on collectorControlIn.
WaitCollectorNoBlock ==
  /\ Alive /\ pc = "waitCollector"
  /\ pc' = "returned"
  /\ UNCHANGED <<cliVars, workers, workerMap, lbIndex, idx, k, target,
                 wrkVars, colVars, chanVars, crashed, histVars>>

\* <-c.collectorControlIn, then Run returns
WaitCollector ==
  /\ Alive /\ pc = "waitCollector"
  /\ collectorControlIn > 0
  /\ pc' = "returned"
  /\ UNCHANGED <<cliVars, workers, workerMap, lbIndex, idx, k, target,
                 wrkVars, colVars, chanVars, crashed, histVars>>

Controller ==
  \/ DispatchKnown
  \/ DispatchOverflow
  \/ DispatchSpawn
  \/ Send
  \/ DispatchEnd
  \/ CloseWork
  \/ WaitWorkers
  \/ CloseCollector
  \/ WaitCollector

\* ------------------------------------------------------------------- Worker
Workers == 1..Len(wpc)

\* A receive that leaves the record in the inbox.
WorkerReceiveNoPop(w) ==
  /\ Alive /\ wpc[w] = "idle"
  /\ workChan[w] # <<>>
  /\ wqp' = [wqp EXCEPT ![w] = Head(workChan[w])]
  /\ wpc' = [wpc EXCEPT ![w] = "executing"]
  /\ UNCHANGED <<cliVars, ctlVars, workChan, workClosed, controlClosed, wop,
                 colVars, chanVars, crashed, histVars>>

\* for qp := range w.receiver: the next record is taken from the buffer
WorkerReceive(w) ==
  /\ Alive /\ wpc[w] = "idle"
  /\ workChan[w] # <<>>
  /\ wqp' = [wqp EXCEPT ![w] = Head(workChan[w])]
  /\ workChan' = [workChan EXCEPT ![w] = Tail(@)]
  /\ wpc' = [wpc EXCEPT ![w] = "executing"]
  /\ UNCHANGED <<cliVars, ctlVars, workClosed, controlClosed, wop,
                 colVars, chanVars, crashed, histVars>>

\* preparedQuery.Query returns without error; opTime := stop.Sub(start)
WorkerQueryOk(w) ==
  /\ Alive /\ wpc[w] = "executing"
  /\ \E t \in Latencies : wop' = [wop EXCEPT ![w] = t]
  /\ executedBy' = [executedBy EXCEPT ![wqp[w]] = w]
  /\ wpc' = [wpc EXCEPT ![w] = "reporting"]
  /\ UNCHANGED <<cliVars, ctlVars, workChan, workClosed, controlClosed,
                 wqp, colVars, chanVars, crashed, producedTotal, sampleCount,
                 received>>

\* The error of the query only logged: the worker goes on to report an opTime.
WorkerQueryErrReported(w) ==
  /\ Alive /\ wpc[w] = "executing"
  /\ \E t \in Latencies : wop' = [wop EXCEPT ![w] = t]
  /\ wpc' = [wpc EXCEPT ![w] = "reporting"]
  /\ UNCHANGED <<cliVars, ctlVars, workChan, workClosed, controlClosed,
                 wqp, colVars, chanVars, crashed, histVars>>

\* preparedQuery.Query returns an error: log.Fatal exits the process
WorkerQueryErr(w) ==
  /\ Alive /\ wpc[w] = "executing"
  /\ crashed' = "fatal: error while executing query"
  /\ UNCHANGED <<cliVars, ctlVars, wrkVars, colVars, chanVars, histVars>>

\* The worker going back to its inbox without sending the sample.
WorkerReportSkipped(w) ==
  /\ Alive /\ wpc[w] = "reporting"
  /\ wpc' = [wpc EXCEPT ![w] = "idle"]
  /\ wqp' = [wqp EXCEPT ![w] = 0]
  /\ wop' = [wop EXCEPT ![w] = 0]
  /\ UNCHANGED <<cliVars, ctlVars, workChan, workClosed, controlClosed,
                 colVars, chanVars, crashed, histVars>>

\* w.collectorOut <- WorkSample{opTime}
WorkerReport(w) ==
  /\ Alive /\ wpc[w] = "reporting"
  /\ IF collectorClosed > 0
     THEN /\ crashed' = "panic: send on closed collectorOut"
          /\ UNCHANGED <<collectorChan, producedTotal, sampleCount, wpc, wqp, wop>>
     ELSE /\ Len(collectorChan) < SampleCap
          /\ collectorChan' = Append(collectorChan, wop[w])
          /\ producedTotal' = producedTotal + wop[w]
          /\ sampleCount' = [sampleCount EXCEPT ![wqp[w]] = @ + 1]
          /\ wpc' = [wpc EXCEPT ![w] = "idle"]
          /\ wqp' = [wqp EXCEPT ![w] = 0]
          /\ wop' = [wop EXCEPT ![w] = 0]
          /\ UNCHANGED crashed
  /\ UNCHANGED <<cliVars, ctlVars, workChan, workClosed, controlClosed,
                 colVars, collectorClosed, collectorControlIn, executedBy,
                 received>>

\* The worker leaving without close(w.controlOut).
WorkerExitNoSignal(w) ==
  /\ Alive /\ wpc[w] = "idle"
  /\ workChan[w] = <<>> /\ workClosed[w] > 0
  /\ wpc' = [wpc EXCEPT ![w] = "done"]
  /\ UNCHANGED <<cliVars, ctlVars, workChan, workClosed, controlClosed,
                 wqp, wop, colVars, chanVars, crashed, histVars>>

\* The worker leaving as soon as its inbox is empty.
WorkerExitEager(w) ==
  /\ Alive /\ wpc[w] = "idle"
  /\ workChan[w] = <<>>
  /\ IF controlClosed[w] > 0
     THEN /\ crashed' = "panic: close of closed channel"
          /\ UNCHANGED <<controlClosed, wpc>>
     ELSE /\ controlClosed' = [controlClosed EXCEPT ![w] = @ + 1]
          /\ wpc' = [wpc EXCEPT ![w] = "done"]
          /\ UNCHANGED crashed
  /\ UNCHANGED <<cliVars, ctlVars, workChan, workClosed, wqp, wop,
                 colVars, chanVars, histVars>>

\* the range ends (channel closed and drained); close(w.controlOut)
WorkerExit(w) ==
  /\ Alive /\ wpc[w] = "idle"
  /\ workChan[w] = <<>> /\ workClosed[w] > 0
  /\ IF controlClosed[w] > 0
     THEN /\ crashed' = "panic: close of closed channel"
          /\ UNCHANGED <<controlClosed, wpc>>
     ELSE /\ controlClosed' = [controlClosed EXCEPT ![w] = @ + 1]
          /\ wpc' = [wpc EXCEPT ![w] = "done"]
          /\ UNCHANGED crashed
  /\ UNCHANGED <<cliVars, ctlVars, workChan, workClosed, wqp, wop,
                 colVars, chanVars, histVars>>

WorkerRun(w) ==
  \/ WorkerReceive(w)
  \/ WorkerQueryOk(w)
  \/ WorkerQueryErr(w)
  \/ WorkerReport(w)
  \/ WorkerExit(w)

\* ---------------------------------------------------------------- Collector
\* Go's integer division truncates toward zero
GoDiv(a, b) == IF a >= 0 THEN a \div b ELSE -((-a) \div b)

\* An insertion that drops a value the slice already starts with.
RECURSIVE InsertDedup(_, _)
InsertDedup(x, s) == IF s = <<>> THEN <<x>>
                     ELSE IF x = Head(s) THEN s
                     ELSE IF x < Head(s) THEN <<x>> \o s
                     ELSE <<Head(s)>> \o InsertDedup(x, Tail(s))

RECURSIVE Insert(_, _)
Insert(x, s) == IF s = <<>> THEN <<x>>
                ELSE IF x <= Head(s) THEN <<x>> \o s
                ELSE <<Head(s)>> \o Insert(x, Tail(s))

\* sort.Sort(c.data.allQueryTimes), ascending by Less
RECURSIVE SortAsc(_)
SortAsc(s) == IF s = <<>> THEN <<>> ELSE Insert(Head(s), SortAsc(Tail(s)))

\* time.Duration addition: two's complement, wrapping at half the width
add64Half(a, b) ==
  ((a + b + 2^(IntWidth - 2)) % 2^(IntWidth - 1)) - 2^(IntWidth - 2)

\* time.Duration addition: two's complement, wrapping at IntWidth bits
add64(a, b) == ((a + b - MinInt) % 2^IntWidth) + MinInt

\* for _, d := range c.data.allQueryTimes { sum += d }
RECURSIVE sumLoop(_, _)
sumLoop(sum, s) == IF s = <<>> THEN sum ELSE sumLoop(add64(sum, Head(s)), Tail(s))

\* the sum of s in the integers
RECURSIVE SumSeq(_)
SumSeq(s) == IF s = <<>> THEN 0 ELSE Head(s) + SumSeq(Tail(s))

\* minQueryTime kept from the first sample.
updateMinFirst(cur, s) == IF cur = Nil THEN s ELSE cur

\* minQueryTime after a sample s
updateMin(cur, s) == IF cur = Nil THEN s ELSE IF s < cur THEN s ELSE cur

\* maxQueryTime taking every sample.
updateMaxLast(cur, s) == s

\* maxQueryTime after a sample s
updateMax(cur, s) == IF cur = Nil THEN s ELSE IF s > cur THEN s ELSE cur

\* The slice read one element too low.
AtOneBased(s, i) == IF i \in 1..Len(s) THEN s[i] ELSE Nil

\* the 0-based slice access s[i]; Nil stands for the index-out-of-range panic
At(s, i) == IF i + 1 \in 1..Len(s) THEN s[i + 1] ELSE Nil

\* The even-length median without the division by two.
calcMedianNoHalf(s) ==
  LET dataLen == Len(s) IN
  IF dataLen % 2 = 0
  THEN LET mid0 == At(s, dataLen \div 2)
           mid1 == At(s, (dataLen \div 2) - 1)
       IN IF mid0 = Nil \/ mid1 = Nil THEN Nil ELSE add64(mid0, mid1)
  ELSE At(s, dataLen \div 2)

\* the median of the sorted slice; Nil stands for a panic
calcMedian(s) ==
  LET dataLen == Len(s) IN
  IF dataLen % 2 = 0
  THEN LET mid0 == At(s, dataLen \div 2)
           mid1 == At(s, (dataLen \div 2) - 1)
       IN IF mid0 = Nil \/ mid1 = Nil THEN Nil ELSE GoDiv(add64(mid0, mid1), 2)
  ELSE At(s, dataLen \div 2)

\* the average of the slice; Nil stands for the divide-by-zero panic
calcAverage(s) == IF Len(s) = 0 THEN Nil ELSE GoDiv(sumLoop(0, s), Len(s))

\* AddWorkSample without the running total.
AddWorkSampleNoTotal(sample) ==
  /\ numQueries' = numQueries + 1
  /\ totalProcessingTime' = totalProcessingTime
  /\ allQueryTimes' = Append(allQueryTimes, sample)
  /\ minQueryTime' = updateMin(minQueryTime, sample)
  /\ maxQueryTime' = updateMax(maxQueryTime, sample)

\* Collector.AddWorkSample
AddWorkSample(sample) ==
  /\ numQueries' = numQueries + 1
  /\ totalProcessingTime' = add64(totalProcessingTime, sample)
  /\ allQueryTimes' = Append(allQueryTimes, sample)
  /\ minQueryTime' = updateMin(minQueryTime, sample)
  /\ maxQueryTime' = updateMax(maxQueryTime, sample)

\* for sample := range c.receiver { c.AddWorkSample(sample) }
CollectorReceive ==
  /\ Alive /\ cpc = "recv"
  /\ collectorChan # <<>>
  /\ AddWorkSample(Head(collectorChan))
  /\ collectorChan' = Tail(collectorChan)
  /\ received' = Append(received, Head(collectorChan))
  /\ UNCHANGED <<cliVars, ctlVars, wrkVars, cpc, median, average,
                 collectorClosed, collectorControlIn, crashed, executedBy,
                 producedTotal, sampleCount>>

\* The receiver is closed and drained: calcMedianAndAverage, then the report
\* is printed (minQueryTime.String() and maxQueryTime.String() dereference).
CollectorReport ==
  /\ Alive /\ cpc = "recv"
  /\ collectorChan = <<>> /\ collectorClosed > 0
  /\ LET sorted == SortAsc(allQueryTimes)
         med == calcMedian(sorted)
         avg == calcAverage(sorted)
     IN /\ allQueryTimes' = sorted
        /\ IF med = Nil
           THEN /\ crashed' = "panic: index out of range"
                /\ UNCHANGED <<median, average, cpc>>
           ELSE IF avg = Nil
           THEN /\ crashed' = "panic: integer divide by zero"
                /\ UNCHANGED <<median, average, cpc>>
           ELSE IF minQueryTime = Nil \/ maxQueryTime = Nil
           THEN /\ crashed' = "panic: nil pointer dereference"
                /\ UNCHANGED <<median, average, cpc>>
           ELSE /\ median' = med
                /\ average' = avg
                /\ cpc' = "reported"
                /\ UNCHANGED crashed
  /\ UNCHANGED <<cliVars, ctlVars, wrkVars, numQueries,
                 totalProcessingTime, minQueryTime, maxQueryTime, chanVars,
                 histVars>>

\* close(c.controlOut)
CollectorClose ==
  /\ Alive /\ cpc = "reported"
  /\ IF collectorControlIn > 0
     THEN /\ crashed' = "panic: close of closed channel"
          /\ UNCHANGED <<collectorControlIn, cpc>>
     ELSE /\ collectorControlIn' = collectorControlIn + 1
          /\ cpc' = "done"
          /\ UNCHANGED crashed
  /\ UNCHANGED <<cliVars, ctlVars, wrkVars, numQueries,
                 totalProcessingTime, minQueryTime, maxQueryTime, allQueryTimes,
                 median, average, collectorChan, collectorClosed, histVars>>

Collector ==
  \/ CollectorReceive
  \/ CollectorReport
  \/ CollectorClose

\* ------------------------------------------------------------ specification
Next ==
  \/ Controller
  \/ \E w \in Workers : WorkerRun(w)
  \/ Collector

Spec == Init /\ [][Next]_vars

\* The Go scheduler runs some goroutine whenever one can take a step.
FairSpec == Spec /\ WF_vars(Next)

\* ---------------------------------------------------------------------- CLI
\* The state in which runCli reads the query params: data holds the records
\* the source yields (up to its error, if it has one); nothing is started.
CliInit ==
  /\ data \in Inputs
  /\ numWorkers \in 0..MaxCap
  /\ cliErr = "nil"
  /\ workers = <<>>
  /\ workerMap = <<>>
  /\ lbIndex = 0
  /\ pc = "cli"
  /\ idx = 1
  /\ k = 1
  /\ target = 0
  /\ workChan = <<>>
  /\ workClosed = <<>>
  /\ controlClosed = <<>>
  /\ wpc = <<>>
  /\ wqp = <<>>
  /\ wop = <<>>
  /\ collectorChan = <<>>
  /\ collectorClosed = 0
  /\ collectorControlIn = 0
  /\ cpc = "unspawned"
  /\ numQueries = 0
  /\ totalProcessingTime = 0
  /\ minQueryTime = Nil
  /\ maxQueryTime = Nil
  /\ allQueryTimes = <<>>
  /\ median = Nil
  /\ average = Nil
  /\ crashed = "no"
  /\ executedBy = [i \in 1..Len(data) |-> 0]
  /\ producedTotal = 0
  /\ sampleCount = [i \in 1..Len(data) |-> 0]
  /\ received = <<>>

\* gocsv.Unmarshal succeeds: processChallengeData builds the controller and
\* Run starts the collector.
runCliOk ==
  /\ Alive /\ pc = "cli"
  /\ pc' = "dispatch"
  /\ cpc' = "recv"
  /\ UNCHANGED <<cliVars, workers, workerMap, lbIndex, idx, k, target, wrkVars,
                 numQueries, totalProcessingTime, minQueryTime, maxQueryTime,
                 allQueryTimes, median, average, chanVars, crashed, histVars>>

\* The error kept for later while the records read so far are processed.
runCliErrDeferred ==
  /\ Alive /\ pc = "cli"
  /\ cliErr' = "csv error"
  /\ pc' = "dispatch"
  /\ cpc' = "recv"
  /\ UNCHANGED <<data, numWorkers, workers, workerMap, lbIndex, idx, k, target,
                 wrkVars, numQueries, totalProcessingTime, minQueryTime,
                 maxQueryTime, allQueryTimes, median, average, chanVars, crashed,
                 histVars>>

\* os.Open or gocsv.Unmarshal fails: return err
runCliErr ==
  /\ Alive /\ pc = "cli"
  /\ cliErr' = "csv error"
  /\ pc' = "exit"
  /\ UNCHANGED <<data, numWorkers, workers, workerMap, lbIndex, idx, k, target,
                 wrkVars, colVars, chanVars, crashed, histVars>>

CliNext ==
  \/ runCliOk
  \/ runCliErr
  \/ Next

CliSpec == CliInit /\ [][CliNext]_vars

\* ---------------------------------------------------------------- collector
\* The collector run on its own. The collector channel holds more samples than
\* an input has records, so the run can reach the state where every sample is
\* buffered, the workers are done, the channel is closed and the collector has
\* not taken a sample yet: one such state for every sequence of opTimes.
ColInitOn(S) ==
  \E n \in 0..MaxRecords : \E s \in [1..n -> S] :
    /\ data = [i \in 1..n |-> 1]
    /\ numWorkers = 0
    /\ cliErr = "nil"
    /\ workers = IF n = 0 THEN <<>> ELSE <<1>>
    /\ workerMap = IF n = 0 THEN <<>> ELSE <<1>>
    /\ lbIndex = 0
    /\ pc = "waitCollector"
    /\ idx = n + 1
    /\ k = Len(workers) + 1
    /\ target = 0
    /\ workChan = IF n = 0 THEN <<>> ELSE << <<>> >>
    /\ workClosed = IF n = 0 THEN <<>> ELSE <<1>>
    /\ controlClosed = IF n = 0 THEN <<>> ELSE <<1>>
    /\ wpc = IF n = 0 THEN <<>> ELSE <<"done">>
    /\ wqp = IF n = 0 THEN <<>> ELSE <<0>>
    /\ wop = IF n = 0 THEN <<>> ELSE <<0>>
    /\ collectorChan = s
    /\ collectorClosed = 1
    /\ collectorControlIn = 0
    /\ cpc = "recv"
    /\ numQueries = 0
    /\ totalProcessingTime = 0
    /\ minQueryTime = Nil
    /\ maxQueryTime = Nil
    /\ allQueryTimes = <<>>
    /\ median = Nil
    /\ average = Nil
    /\ crashed = "no"
    /\ executedBy = [i \in 1..n |-> 1]
    /\ producedTotal = SumSeq(s)
    /\ sampleCount = [i \in 1..n |-> 1]
    /\ received = <<>>

ColInit == ColInitOn(0..MaxSample)

ColNext ==
  \/ CollectorReceive
  \/ CollectorReport
  \/ CollectorClose
  \/ WaitCollector

ColSpec == ColInit /\ [][ColNext]_vars

\* The collector run on opTimes at and around the largest time.Duration.
OvfSamples == {0, 1, MaxInt \div 2, (MaxInt \div 2) + 1, MaxInt - 1, MaxInt}

OvfInit == ColInitOn(OvfSamples)

OvfSpec == OvfInit /\ [][ColNext]_vars

\* ------------------------------------------------------------------ routing
\* One pass of the dispatch loop body over a record of host h, on the routing
\* state r (workerMap, workers, lbIndex); ok is lost on a panic.
routeStep(r, h, n) ==
  IF ~r.ok \/ hasWorker(r.map, h) THEN r
  ELSE IF atCap(n, Len(r.roster))
  THEN LET rr == roundRobinSelect(r.roster, r.lb) IN
       IF rr.w = 0 THEN [r EXCEPT !.ok = FALSE]
       ELSE [map |-> bindHost(r.map, h, rr.w), roster |-> r.roster,
             lb |-> rr.i, ok |-> TRUE]
  ELSE LET w == Len(r.roster) + 1 IN
       [map |-> bindHost(r.map, h, w), roster |-> Append(r.roster, w),
        lb |-> r.lb, ok |-> TRUE]

RECURSIVE routeOver(_, _, _)
routeOver(r, d, n) ==
  IF d = <<>> THEN r ELSE routeOver(routeStep(r, Head(d), n), Tail(d), n)

\* The routing state the dispatch loop run on its own leaves for input d, cap n.
Route(d, n) == routeOver([map |-> <<>>, roster |-> <<>>, lb |-> 0, ok |-> TRUE], d, n)

\* ------------------------------------------------------------- definitions
Min(a, b) == IF a <= b THEN a ELSE b

\* the distinct hosts of the input
DistinctHosts == {data[i] : i \in 1..Len(data)}

\* the hosts bound so far that did not get a worker of their own
OverflowCount == Cardinality(DOMAIN workerMap) - Len(workers)

\* the workers that hold or have executed record i
ExecutorsOf(i) ==
  {w \in Workers : wqp[w] = i} \cup (IF executedBy[i] # 0 THEN {executedBy[i]} ELSE {})

Dispatched == pc \notin {"dispatch", "send"}

\* --------------------------------------------------------------- properties
\* C1: host affinity. Any two records of the same host that are being or have
\* been executed are executed by the same worker, for every cap and input.
C1_HostAffinity ==
  \A i, j \in 1..Len(data) :
    data[i] = data[j] =>
      \A a \in ExecutorsOf(i), b \in ExecutorsOf(j) : a = b

\* C1 witness: two records of a host bound by overflow have both been executed.
C1_Witness ==
  /\ numWorkers > 0 /\ OverflowCount > 0
  /\ \E i, j \in 1..Len(data) :
       /\ i < j /\ data[i] = data[j]
       /\ executedBy[i] # 0 /\ executedBy[j] # 0
       /\ \E h \in DOMAIN workerMap :
            h # data[i] /\ h < data[i] /\ workerMap[h] = workerMap[data[i]]

\* C2 (as claimed): every overflow assignment returns roster[i] for the cursor
\* i and leaves the cursor at (i + 1) mod |roster|, so that the k-th overflow
\* host (k from 0) is bound to roster[k mod |roster|].
C2_RoundRobinOverflow ==
  [][(/\ pc = "dispatch" /\ pc' = "send"
      /\ idx <= Len(data)
      /\ ~hasWorker(workerMap, data[idx])
      /\ atCap(numWorkers, Len(workers)))
     => /\ target' = workers[lbIndex + 1]
        /\ lbIndex' = (lbIndex + 1) % Len(workers)
        /\ target' = workers[(OverflowCount % Len(workers)) + 1]]_vars

\* C3: with a cap, the roster and the number of worker goroutines never exceed
\* the cap.
C3_WorkerCap ==
  numWorkers > 0 => (Len(workers) <= numWorkers /\ Len(wpc) <= numWorkers)

\* C3 witness: a new host arrived with the roster at the cap.
C3_Witness ==
  /\ numWorkers > 0 /\ Len(workers) = numWorkers /\ OverflowCount > 0

\* C4: once the dispatch loop has finished, the number of workers spawned is
\* the number of distinct hosts without a cap, and the smaller of that number
\* and the cap with one.
C4_WorkersSpawned ==
  Dispatched =>
    /\ Len(workers) = Len(wpc)
    /\ Len(workers) = IF numWorkers = 0 THEN Cardinality(DistinctHosts)
                      ELSE Min(Cardinality(DistinctHosts), numWorkers)

\* C4 witness: the loop has finished on an input with more hosts than the cap.
C4_Witness ==
  /\ Dispatched /\ numWorkers > 0
  /\ Cardinality(DistinctHosts) > numWorkers
  /\ Len(workers) = numWorkers

\* C5: the collector channel is closed only when every spawned worker has
\* closed its control channel, and no worker sends on the closed channel.
C5_CloseAfterWorkers ==
  /\ collectorClosed > 0 => \A w \in Workers : controlClosed[w] > 0 /\ wpc[w] = "done"
  /\ crashed # "panic: send on closed collectorOut"

\* C5 witness: the collector channel is closed with two workers spawned.
C5_Witness ==
  /\ collectorClosed > 0 /\ Len(wpc) >= 2

\* C6: every work channel is closed at most once, all are closed exactly once
\* when the close loop is over (also with several hosts on one worker), and no
\* record is sent once any work channel is closed.
C6_InboxClosedOnce ==
  /\ \A w \in Workers : workClosed[w] <= 1
  /\ crashed # "panic: close of closed WorkOut"
  /\ pc \in {"waitWorkers", "closeCollector", "waitCollector", "returned"}
       => \A w \in Workers : workClosed[w] = 1
  /\ (\E w \in Workers : workClosed[w] > 0) => pc \notin {"dispatch", "send"}
  /\ crashed # "panic: send on closed WorkOut"

\* C6 witness: the close loop is over and two hosts share a worker.
C6_Witness ==
  /\ pc = "waitWorkers" /\ Len(workers) >= 1
  /\ \E g, h \in DOMAIN workerMap : g # h /\ workerMap[g] = workerMap[h]

\* C7: when the collector has finalized, its count is the number of input
\* records and its total is the sum of the opTimes of the samples sent.
C7_NoSampleLost ==
  cpc \in {"reported", "done"} =>
    /\ numQueries = Len(data)
    /\ Len(allQueryTimes) = Len(data)
    /\ totalProcessingTime = producedTotal

\* C7 witness: the collector has finalized a run of three or more records
\* executed by two or more workers.
C7_Witness ==
  /\ cpc = "reported" /\ Len(data) >= 3 /\ Len(wpc) >= 2 /\ producedTotal > 0

\* C8: under fair scheduling, for a non-empty input, Run returns unless an
\* executor call fails (which ends the process).
C8_Drains ==
  <>(\/ Len(data) = 0
     \/ pc = "returned"
     \/ crashed = "fatal: error while executing query")

\* C8 witness: the controller is blocked on a full work channel while a worker
\* is blocked on the full collector channel.
C8_Witness ==
  /\ pc = "send" /\ Len(workChan[target]) = InboxCap
  /\ Len(collectorChan) = SampleCap
  /\ \E w \in Workers : wpc[w] = "reporting"

\* C9: when Run has returned, every channel has been closed exactly once and
\* every worker and the collector have run to their end.
C9_AllClosedOnReturn ==
  pc = "returned" =>
    /\ crashed = "no"
    /\ \A w \in Workers :
         workClosed[w] = 1 /\ controlClosed[w] = 1 /\ wpc[w] = "done"
    /\ collectorClosed = 1 /\ collectorControlIn = 1
    /\ cpc = "done"
    /\ collectorChan = <<>> /\ \A w \in Workers : workChan[w] = <<>>

\* C9 witness: Run has returned from a run with two or more workers.
C9_Witness ==
  /\ pc = "returned" /\ Len(wpc) >= 2

\* C10 (as claimed): on an empty input no worker is spawned, no sample is
\* produced and the process does not crash; once the collector channel is
\* closed and drained the collector reports a count of 0.
C10_EmptyInputClean ==
  Len(data) = 0 =>
    /\ Len(wpc) = 0 /\ numQueries = 0
    /\ crashed = "no"

\* C11 (as claimed): when the collector finalizes with a count of 0 it raises
\* no index-out-of-range, divide-by-zero or nil-dereference panic.
C11_EmptyRunPolicy ==
  (cpc = "recv" /\ numQueries = 0 /\ collectorClosed > 0 /\ collectorChan = <<>>)
    => crashed \notin {"panic: index out of range",
                       "panic: integer divide by zero",
                       "panic: nil pointer dereference"}

\* C12 (as claimed): after an executor call has failed, the rest of the
\* pipeline goes on: until Run has returned and the collector is done, some
\* goroutine can still take a step.
C12_ErrorPropagation ==
  crashed = "fatal: error while executing query"
    => (pc = "returned" /\ cpc = "done") \/ ENABLED Next

\* C12 (amended): a failed executor call ends the whole process at once. No
\* goroutine takes a further step, the collector channel is never closed, the
\* collector never finalizes and Run never returns.
C12_FatalEndsProcess ==
  crashed = "fatal: error while executing query"
    => /\ ~ENABLED Next
       /\ \E w \in Workers : wpc[w] = "executing"
       /\ collectorClosed = 0 /\ collectorControlIn = 0
       /\ cpc = "recv"
       /\ pc \notin {"closeCollector", "waitCollector", "returned"}

\* C12 witness: a query failed while the controller was waiting for the
\* workers of a run with two or more workers.
C12_Witness ==
  /\ crashed = "fatal: error while executing query"
  /\ pc = "waitWorkers" /\ Len(wpc) >= 2

\* the records whose executor call has returned successfully and whose worker
\* has moved on
Reported(i) == executedBy[i] # 0 /\ \A w \in Workers : wqp[w] # i

RECURSIVE SumFun(_, _)
SumFun(f, n) == IF n = 0 THEN 0 ELSE f[n] + SumFun(f, n - 1)

\* C13: a sample is sent for a record only after its executor call returned
\* successfully, at most once, and exactly once when its worker has moved on;
\* every sample sent is in the collector channel or counted once.
C13_SampleIffSuccess ==
  /\ \A i \in 1..Len(data) :
       /\ sampleCount[i] <= 1
       /\ sampleCount[i] >= 1 => executedBy[i] # 0
       /\ Reported(i) => sampleCount[i] = 1
  /\ \A w \in Workers :
       Cardinality({i \in 1..Len(data) : sampleCount[i] >= 1 /\ executedBy[i] = w})
         <= Cardinality({i \in 1..Len(data) : executedBy[i] = w})
  /\ numQueries + Len(collectorChan) = SumFun(sampleCount, Len(data))

\* C13 witness: a query has failed after another record's sample was sent; no
\* sample exists for the record of a worker still in its executor call.
C13_Witness ==
  /\ crashed = "fatal: error while executing query"
  /\ \E i \in 1..Len(data) : sampleCount[i] = 1
  /\ \E w \in Workers : wpc[w] = "executing" /\ sampleCount[wqp[w]] = 0

\* C14 (as claimed): after a source error the records read before it are
\* processed as the input: until Run has returned with all of them counted,
\* some step of the pipeline is still to be taken.
C14_SourceErrorDrains ==
  cliErr # "nil" => (pc = "returned" /\ numQueries = Len(data)) \/ ENABLED CliNext

\* C14 (amended): after a source error runCli returns the error at once: no
\* record is dispatched and neither the collector nor any worker is started.
C14_SourceErrorNoPipeline ==
  cliErr # "nil" =>
    /\ pc = "exit" /\ ~ENABLED CliNext
    /\ cpc = "unspawned" /\ Len(wpc) = 0 /\ Len(workers) = 0
    /\ idx = 1 /\ numQueries = 0 /\ collectorClosed = 0

\* C14 witness: the source failed after yielding two or more records.
C14_Witness ==
  /\ cliErr # "nil" /\ Len(data) >= 2

Occ(i) ==
  Cardinality({wp \in Workers \X (1..InboxCap) :
                 wp[2] <= Len(workChan[wp[1]]) /\ workChan[wp[1]][wp[2]] = i})
    + Cardinality({w \in Workers : wqp[w] = i})

\* C16: every record the dispatcher has sent is in exactly one place: one slot
\* of one inbox, the hands of one worker, or behind its worker, executed; a
\* record not yet sent is nowhere; no record yields two samples; and when Run
\* has returned every record has been executed and reported once.
C16_ExactlyOnce ==
  /\ \A i \in 1..Len(data) :
       /\ i < idx => Occ(i) + (IF Reported(i) THEN 1 ELSE 0) = 1
       /\ i >= idx => Occ(i) = 0 /\ executedBy[i] = 0
       /\ sampleCount[i] <= 1
  /\ pc = "returned" =>
       \A i \in 1..Len(data) : Reported(i) /\ sampleCount[i] = 1

\* C16 witness: Run has returned after three or more records went through two
\* or more workers.
C16_Witness ==
  /\ pc = "returned" /\ Len(data) >= 3 /\ Len(workers) >= 2
  /\ \A i \in 1..Len(data) : Reported(i)

\* the workers with an executor call in flight
InFlight == {w \in Workers : wpc[w] = "executing"}

\* C17: no two executor calls in flight are for the same host; a worker in
\* flight holds one record, which it took from its inbox; and under a positive
\* cap at most numWorkers calls are in flight.
C17_SerializedAndBounded ==
  /\ \A w, v \in InFlight : w # v => data[wqp[w]] # data[wqp[v]]
  /\ \A w \in InFlight : wqp[w] \in 1..(idx - 1) /\ executedBy[wqp[w]] = 0
  /\ numWorkers > 0 => Cardinality(InFlight) <= numWorkers

\* C17 witness: under a cap of two, with three hosts bound, both workers have
\* a call in flight.
C17_Witness ==
  /\ numWorkers = 2 /\ Cardinality(DOMAIN workerMap) >= 3
  /\ Cardinality(InFlight) = 2

\* the number of times v occurs in s
CountOf(s, v) == Cardinality({i \in 1..Len(s) : s[i] = v})

IsSorted(s) == \A i \in 1..(Len(s) - 1) : s[i] <= s[i + 1]

\* C18: aggregator invariants. At every point of the collector's run the count
\* is the length of the sample vector, the sum is the sum of its elements, and
\* min and max are set exactly when the count is positive; while receiving the
\* vector is the samples in arrival order, and once calcMedianAndAverage has
\* run it is sorted ascending and a permutation of the samples received.
C18_AggregatorInvariants ==
  /\ numQueries = Len(allQueryTimes)
  /\ numQueries = Len(received)
  /\ totalProcessingTime = SumSeq(allQueryTimes)
  /\ (minQueryTime # Nil) <=> (numQueries > 0)
  /\ (maxQueryTime # Nil) <=> (numQueries > 0)
  /\ (cpc = "recv" /\ crashed = "no") => allQueryTimes = received
  /\ cpc \in {"reported", "done"} =>
       /\ IsSorted(allQueryTimes)
       /\ \A v \in 0..MaxSample : CountOf(allQueryTimes, v) = CountOf(received, v)

\* C18 witness: the report is made on three or more samples that arrived out
\* of order and with a value repeated.
C18_Witness ==
  /\ cpc = "reported" /\ numQueries >= 3
  /\ ~IsSorted(received)
  /\ \E v \in 0..MaxSample : CountOf(received, v) >= 2

\* the last sample taken, in the state after a receive
LastReceived == received[Len(received)]

\* C19: online min/max. At every point min is the smallest and max the largest
\* of the samples received so far; and a stored min (max) is replaced only by
\* the sample just received, and only when that is strictly smaller (larger).
C19_OnlineMinMax ==
  /\ [](received # <<>> =>
          /\ \E i \in 1..Len(received) : minQueryTime = received[i]
          /\ \A i \in 1..Len(received) : minQueryTime <= received[i]
          /\ \E i \in 1..Len(received) : maxQueryTime = received[i]
          /\ \A i \in 1..Len(received) : maxQueryTime >= received[i])
  /\ [][/\ (minQueryTime # Nil /\ minQueryTime' # minQueryTime) =>
             /\ Len(received') = Len(received) + 1
             /\ LastReceived' < minQueryTime
             /\ minQueryTime' = LastReceived'
        /\ (maxQueryTime # Nil /\ maxQueryTime' # maxQueryTime) =>
             /\ Len(received') = Len(received) + 1
             /\ LastReceived' > maxQueryTime
             /\ maxQueryTime' = LastReceived']_vars

\* C19 witness: the min was replaced by the second sample and the max by the
\* third, and both were kept over a fourth sample that lies between them.
C19_Witness ==
  /\ Len(received) >= 4
  /\ received[2] < received[1] /\ received[3] > received[1]
  /\ received[2] < received[4] /\ received[4] < received[3]
  /\ minQueryTime = received[2] /\ maxQueryTime = received[3]

\* C20: once the report is made (so the count is positive), the median and the
\* average lie between min and max.
C20_ReportWithinRange ==
  (cpc \in {"reported", "done"} /\ numQueries > 0) =>
    /\ minQueryTime <= median /\ median <= maxQueryTime
    /\ minQueryTime <= average /\ average <= maxQueryTime

\* C20 witness: a report on an even number of samples whose median and average
\* differ and lie strictly between min and max.
C20_Witness ==
  /\ cpc = "reported" /\ numQueries > 0 /\ numQueries % 2 = 0
  /\ minQueryTime < median /\ median < maxQueryTime
  /\ minQueryTime < average /\ average < maxQueryTime
  /\ median # average

\* C21: median and average. Once the report is made, with the sample vector
\* sorted ascending, the median is the middle sample for an odd count and the
\* truncated half of the sum of the two middle samples for an even count, and
\* the average is the truncated quotient of sum and count; 1,2,3,4 gives
\* median 2 and average 2, and 5,1,3 gives median 3 and average 3.
C21_MedianAndAverage ==
  cpc \in {"reported", "done"} =>
    LET n == numQueries
        h == n \div 2
    IN /\ n > 0
       /\ n % 2 = 1 => median = allQueryTimes[h + 1]
       /\ n % 2 = 0 =>
            /\ 2 * median <= allQueryTimes[h + 1] + allQueryTimes[h]
            /\ allQueryTimes[h + 1] + allQueryTimes[h] < 2 * median + 2
       /\ n * average <= totalProcessingTime
       /\ totalProcessingTime < n * average + n
       /\ received = <<1, 2, 3, 4>> => median = 2 /\ average = 2
       /\ received = <<5, 1, 3>> => median = 3 /\ average = 3

\* C21 witness: the report on 1,2,3,4, where both divisions truncate.
C21_Witness ==
  /\ cpc = "reported" /\ received = <<1, 2, 3, 4>>
  /\ median = 2 /\ average = 2

RECURSIVE minOver(_, _)
minOver(cur, s) == IF s = <<>> THEN cur ELSE minOver(updateMin(cur, Head(s)), Tail(s))

RECURSIVE maxOver(_, _)
maxOver(cur, s) == IF s = <<>> THEN cur ELSE maxOver(updateMax(cur, Head(s)), Tail(s))

\* the report (count, sum, min, max, median, average) of a collector that
\* receives the samples s in this order
ReportOf(s) ==
  <<Len(s), sumLoop(0, s), minOver(Nil, s), maxOver(Nil, s),
    calcMedian(SortAsc(s)), calcAverage(SortAsc(s))>>

\* the mirror image of s
Reversed(s) == [i \in 1..Len(s) |-> s[Len(s) + 1 - i]]

\* C22: the report depends on the multiset of samples only. The report made
\* on the arrival order of this run is the report of a run in which the same
\* samples arrive in ascending order, and of one in which they arrive in the
\* opposite order: every arrival order of a multiset gives the report of its
\* ascending order.
C22_OrderIndependent ==
  cpc \in {"reported", "done"} =>
    LET report == <<numQueries, totalProcessingTime, minQueryTime,
                    maxQueryTime, median, average>>
    IN /\ report = ReportOf(SortAsc(received))
       /\ report = ReportOf(Reversed(received))

\* C22 witness: a report on three or more samples that arrived neither in
\* ascending nor in descending order.
C22_Witness ==
  /\ cpc = "reported" /\ numQueries >= 3
  /\ ~IsSorted(received) /\ ~IsSorted(Reversed(received))

\* the number of records whose routing the dispatcher has decided
Routed == IF pc = "send" THEN idx ELSE idx - 1

\* C23: determinism of routing. In every run, however the dispatcher, the
\* workers and the collector interleave, the bindings (by spawn index), the
\* roster and the cursor after any number of records are those the dispatch
\* loop computes from the input and the cap alone; so are the final ones.
C23_RoutingDeterministic ==
  LET r == Route(SubSeqTo(data, Routed), numWorkers) IN
    /\ workerMap = r.map
    /\ workers = r.roster
    /\ lbIndex = r.lb

\* C23 witness: Run has returned after an input of three or more hosts was
\* routed over two workers, the workers having run while records were routed.
C23_Witness ==
  /\ pc = "returned" /\ numWorkers = 2 /\ Cardinality(DOMAIN workerMap) >= 3
  /\ workerMap = Route(data, numWorkers).map
  /\ \E i, j \in 1..Len(data) : executedBy[i] = 1 /\ executedBy[j] = 2

\* the members of the roster
Roster == {workers[i] : i \in 1..Len(workers)}

\* C24: routing table. No step changes or removes an entry of workerMap;
\* every bound worker is in the roster; the keys are always hosts of records
\* the dispatcher has reached, and once the dispatch loop has finished they
\* are exactly the distinct hosts of the input.
C24_RoutingTable ==
  /\ [][\A h \in DOMAIN workerMap :
          h \in DOMAIN workerMap' /\ workerMap'[h] = workerMap[h]]_vars
  /\ [](/\ \A h \in DOMAIN workerMap : workerMap[h] \in Roster
        /\ DOMAIN workerMap = {data[i] : i \in 1..Routed}
        /\ Dispatched => DOMAIN workerMap = DistinctHosts)

\* C24 witness: the dispatch loop has finished on an input of three or more
\* hosts, one of them bound by overflow.
C24_Witness ==
  /\ pc = "closeWork" /\ Cardinality(DOMAIN workerMap) >= 3
  /\ OverflowCount >= 1
  /\ DOMAIN workerMap = DistinctHosts

C26_ShutdownOrder ==
  /\ \A w \in Workers : workClosed[w] > 0 => idx > Len(data) /\ Dispatched
  /\ \A w \in Workers :
       controlClosed[w] > 0 => workClosed[w] > 0 /\ workChan[w] = <<>>
  /\ collectorClosed > 0 => \A w \in Workers : controlClosed[w] > 0
  /\ cpc \in {"reported", "done"} => collectorClosed > 0 /\ collectorChan = <<>>
  /\ collectorControlIn > 0 => cpc = "done" /\ median # Nil
  /\ pc = "returned" => collectorControlIn > 0

\* C26 witness: Run has returned with two or more workers done and the
\* collector done after a report on three or more samples.
C26_Witness ==
  /\ pc = "returned" /\ Len(wpc) >= 2 /\ numQueries >= 3
  /\ \A w \in Workers : controlClosed[w] = 1 /\ workClosed[w] = 1
  /\ collectorClosed = 1 /\ collectorControlIn = 1 /\ cpc = "done"

\* C27: no overflow within the stated range. When the latencies of the run
\* (received or still buffered) are non-negative and total less than the
\* largest time.Duration, the running sum is the true sum of the samples
\* received, and the reported average and even-count median are the true
\* quotients: neither sum nor mid0 + mid1 has wrapped.
C27_NoOverflowInRange ==
  SumSeq(received \o collectorChan) < MaxInt =>
    /\ totalProcessingTime = SumSeq(received)
    /\ cpc \in {"reported", "done"} =>
         LET n == numQueries
             h == n \div 2
             mids == allQueryTimes[h + 1] + allQueryTimes[h]
         IN /\ n * average <= SumSeq(allQueryTimes)
            /\ SumSeq(allQueryTimes) < n * average + n
            /\ n % 2 = 0 => 2 * median <= mids /\ mids < 2 * median + 2

\* C27 witness: a report on two samples whose sum, which is also mid0 + mid1,
\* is the largest total the range admits.
C27_Witness ==
  /\ cpc = "reported" /\ numQueries = 2
  /\ received = <<MaxInt \div 2, MaxInt \div 2>>
  /\ totalProcessingTime = MaxInt - 1
  /\ median = MaxInt \div 2

\* the input h1,h2,h3,h3,h1,h2
ExampleInput == <<1, 2, 3, 3, 1, 2>>

\* C28: the cursor changes only in a step that binds a new host at the cap:
\* routing a record of a bound host and spawning a worker leave it unchanged.
\* On h1,h2,h3,h3,h1,h2 with cap 2 (on every run of a prefix of it that
\* reaches h3, and on the dispatch loop run over the whole of it) h1 is bound
\* to the first worker, h2 to the second, h3 to the first, and the cursor is 1
\* from then on.
C28_CursorFrame ==
  /\ [][lbIndex' # lbIndex =>
          /\ pc = "dispatch" /\ atCap(numWorkers, Len(workers))
          /\ ~hasWorker(workerMap, data[idx]) /\ hasWorker(workerMap', data[idx])
          /\ workers' = workers]_vars
  /\ [][(pc = "dispatch" /\ pc' = "send" /\ hasWorker(workerMap, data[idx]))
          => lbIndex' = lbIndex]_vars
  /\ [][workers' # workers => lbIndex' = lbIndex]_vars
  /\ [](/\ Route(ExampleInput, 2).map = <<1, 2, 1>>
        /\ Route(ExampleInput, 2).lb = 1
        /\ (numWorkers = 2 /\ Routed >= 3 /\ data = SubSeqTo(ExampleInput, Len(data)))
             => workerMap = <<1, 2, 1>> /\ lbIndex = 1)

\* C28 witness: Run has returned on h1,h2,h3,h3 with cap 2, after a record of
\* the overflow-bound host h3 was routed by the stored mapping.
C28_Witness ==
  /\ numWorkers = 2 /\ Len(data) >= 4 /\ data = SubSeqTo(ExampleInput, Len(data))
  /\ pc = "returned" /\ lbIndex = 1
  /\ workerMap[3] = 1 /\ executedBy[4] = 1

\* C29: worker state machine. A worker starts Idle and changes state only by
\* Idle to Executing (taking the head of its inbox), Executing to Reporting
\* (the executor returned), Reporting to Idle (its sample appended to the
\* sample channel) and Idle to Done (inbox closed and empty); nothing leaves
\* Done; a Done worker has an empty inbox and every sample sent; and a worker
\* has sent the sample of every record it executed before it holds the next,
\* so its samples go out in the order it received the records.
C29_WorkerStateMachine ==
  /\ [][/\ \A w \in 1..Len(wpc') : w \notin Workers => wpc'[w] = "idle"
        /\ \A w \in Workers : wpc'[w] # wpc[w] =>
             \/ /\ wpc[w] = "idle" /\ wpc'[w] = "executing"
                /\ workChan[w] # <<>>
                /\ wqp'[w] = Head(workChan[w])
                /\ workChan'[w] = Tail(workChan[w])
             \/ /\ wpc[w] = "executing" /\ wpc'[w] = "reporting"
                /\ executedBy'[wqp[w]] = w
             \/ /\ wpc[w] = "reporting" /\ wpc'[w] = "idle"
                /\ collectorChan' = Append(collectorChan, wop[w])
                /\ sampleCount'[wqp[w]] = sampleCount[wqp[w]] + 1
             \/ /\ wpc[w] = "idle" /\ wpc'[w] = "done"
                /\ workClosed[w] > 0 /\ workChan[w] = <<>>]_vars
  /\ [](\A w \in Workers :
          /\ wpc[w] = "done" => workChan[w] = <<>> /\ wqp[w] = 0
          /\ \A i \in 1..Len(data) :
               (executedBy[i] = w /\ wqp[w] # i) => sampleCount[i] = 1)

\* C29 witness: a worker is Done after two or more records went through it,
\* while another worker is still Executing.
C29_Witness ==
  \E w, v \in Workers :
    /\ wpc[w] = "done" /\ wpc[v] = "executing"
    /\ Cardinality({i \in 1..Len(data) : executedBy[i] = w /\ sampleCount[i] = 1}) >= 2

\* the records the dispatcher has enqueued on the inbox of worker w
EnqueuedOn(w) ==
  {i \in 1..(idx - 1) : data[i] \in DOMAIN workerMap /\ workerMap[data[i]] = w}

\* the records whose sample worker w has sent
SentBy(w) == {i \in 1..Len(data) : executedBy[i] = w /\ sampleCount[i] = 1 /\ wqp[w] # i}

\* C30: a worker's done signal fires at most once, in a step taken with its
\* inbox closed and drained, and from then on the records whose sample it has
\* sent are the records the dispatcher enqueued on its inbox, one sample each.
C30_DoneOnce ==
  /\ [][\A w \in Workers : controlClosed'[w] # controlClosed[w] =>
          /\ controlClosed[w] = 0 /\ controlClosed'[w] = 1
          /\ workClosed[w] > 0 /\ workChan[w] = <<>>
          /\ wpc[w] = "idle" /\ wpc'[w] = "done"]_vars
  /\ [](\A w \in Workers :
          /\ controlClosed[w] <= 1
          /\ controlClosed[w] > 0 =>
               /\ SentBy(w) = EnqueuedOn(w)
               /\ idx = Len(data) + 1)

\* C30 witness: two workers have fired done, one after two or more records
\* and one after a single record.
C30_Witness ==
  \E w, v \in Workers :
    /\ controlClosed[w] = 1 /\ controlClosed[v] = 1
    /\ Cardinality(EnqueuedOn(w)) >= 2 /\ Cardinality(EnqueuedOn(v)) = 1

\* the dispatcher is about to call roundRobinSelect
AtSelect ==
  /\ pc = "dispatch" /\ idx <= Len(data) /\ crashed = "no"
  /\ ~hasWorker(workerMap, data[idx])
  /\ atCap(numWorkers, Len(workers))

\* the index-out-of-range panic is the collector's, never the dispatcher's
NoSelectPanic ==
  crashed = "panic: index out of range" => pc = "waitCollector" /\ cpc = "recv"

\* C31 (as claimed): under a cap of one or more, roundRobinSelect is called
\* with a non-empty roster only, its index is in range, and in every state
\* 0 <= lbIndex <= len(workers) - 1.
C31_CursorInRangeAlways ==
  numWorkers >= 1 =>
    /\ AtSelect => Len(workers) >= 1 /\ roundRobinSelect(workers, lbIndex).w # 0
    /\ NoSelectPanic
    /\ 0 <= lbIndex /\ lbIndex <= Len(workers) - 1

\* C31 (amended): under a cap of one or more, roundRobinSelect is called with
\* a non-empty roster only and its index is in range; the cursor is never
\* negative, is 0 while the roster is below the cap, and is at most
\* len(workers) - 1 in every state in which the roster is non-empty.
C31_CursorInRange ==
  numWorkers >= 1 =>
    /\ AtSelect => Len(workers) >= 1 /\ roundRobinSelect(workers, lbIndex).w # 0
    /\ NoSelectPanic
    /\ 0 <= lbIndex
    /\ Len(workers) < numWorkers => lbIndex = 0
    /\ Len(workers) >= 1 => lbIndex <= Len(workers) - 1

\* C31 witness: roundRobinSelect is about to be called with the cursor on the
\* last element of a roster of two or more.
C31_Witness ==
  /\ AtSelect /\ Len(workers) >= 2
  /\ lbIndex = Len(workers) - 1

\* C32: lazy spawning. The roster and the set of worker goroutines grow only
\* in a dispatch step on a record whose host is unbound, below the cap, by
\* the one worker that host is then bound to; the roster has no duplicate
\* handle and lists every worker; every worker is the binding of a host and
\* is the target of the pending send or has had a record enqueued; and when
\* Run has returned every worker has executed a record.
C32_LazySpawn ==
  /\ [][(workers' # workers \/ Len(wpc') # Len(wpc)) =>
          /\ pc = "dispatch" /\ idx <= Len(data)
          /\ ~hasWorker(workerMap, data[idx])
          /\ ~atCap(numWorkers, Len(workers))
          /\ Len(wpc') = Len(wpc) + 1
          /\ workers' = Append(workers, Len(wpc'))
          /\ workerMap'[data[idx]] = Len(wpc')]_vars
  /\ [](/\ Cardinality(Roster) = Len(workers)
        /\ Roster = Workers
        /\ \A w \in Workers :
             /\ \E h \in DOMAIN workerMap : workerMap[h] = w
             /\ (pc = "send" /\ target = w) \/ EnqueuedOn(w) # {}
        /\ pc = "returned" =>
             \A w \in Workers : \E i \in 1..Len(data) : executedBy[i] = w)

\* C32 witness: Run has returned on an input of three or more hosts under a
\* cap of two: two workers were spawned, each has executed a record, and the
\* later hosts were bound without a spawn.
C32_Witness ==
  /\ pc = "returned" /\ numWorkers = 2 /\ Len(workers) = 2
  /\ Cardinality(DistinctHosts) >= 3
  /\ \A w \in Workers : \E i \in 1..Len(data) : executedBy[i] = w

====
